---- MODULE Spec2Model ----
(***************************************************************************)
(* Model of the environment-to-properties engine of ub.go: ConvertKey,     *)
(* ListToMap / splitToMapDefaults, BuildProperties and writeConfig.        *)
(*                                                                         *)
(* A Go string is a sequence of one-character strings, a Go map is a       *)
(* function whose DOMAIN is the set of keys.  Iteration over a Go map is   *)
(* in an arbitrary order, which the actions choose with \E.                *)
(***************************************************************************)
EXTENDS Integers, Sequences, FiniteSets, TLC

VARIABLES
    ckKey,          \* ConvertKey: the argument
    ckOut,          \* ConvertKey: the value returned
    spec,           \* BuildProperties: the ConfigSpec argument
    environment,    \* BuildProperties: the environment argument
    todo,           \* BuildProperties: variables the range loop has not visited
    config,         \* BuildProperties: the local map config / writeConfig's argument
    results,        \* the mappings BuildProperties has returned so far
    calls,          \* number of invocations of BuildProperties started
    sortedNames,    \* writeConfig: the slice sortedNames
    next,           \* writeConfig: index of the next name to write
    sink,           \* the io.Writer: sequence of strings written successfully
    writes,         \* number of Write calls issued to the sink
    err,            \* writeConfig: the error of the last write, "nil" or "error"
    parsed,         \* ListToMap of the lines after the heritage line
    separator,      \* splitToMapDefaults: argument separator
    defaultValues,  \* splitToMapDefaults: argument defaultValues
    value,          \* splitToMapDefaults: argument value
    values,         \* splitToMapDefaults: the map returned
    osEnviron,      \* os.Environ(): the process environment, name -> value
    caller,         \* who invokes BuildProperties: "renderConfig" or "direct"
    pc              \* position of the program

vars == <<ckKey, ckOut, spec, environment, todo, config, results, calls,
          sortedNames, next, sink, writes, err, parsed,
          separator, defaultValues, value, values, osEnviron, caller, pc>>

ckVars    == <<ckKey, ckOut>>
buildVars == <<spec, environment, todo, config, results, calls>>
writeVars == <<sortedNames, next, sink, writes, err, parsed>>
splitVars == <<separator, defaultValues, value, values>>
mainVars  == <<osEnviron, caller>>

(***************************************************************************)
(* Bounds                                                                  *)
(***************************************************************************)
MaxKeyLen == 8      \* longest name handed to ConvertKey in SpecConvert

MaxEnv == 2         \* most variables in the environment
MaxPrefixes == 2    \* most entries of ConfigSpec.Prefixes
MaxRenamed == 1     \* most entries of ConfigSpec.Renamed
MaxCalls == 2       \* most invocations of BuildProperties on the same arguments
MaxEntries == 2     \* most entries of a list handed to splitToMapDefaults

NONE == <<"none">>  \* value of a variable that holds nothing yet

(***************************************************************************)
(* Strings                                                                 *)
(***************************************************************************)
\* all sequences over S of length 0..n
RECURSIVE SeqsUpTo(_, _)
SeqsUpTo(S, n) ==
    IF n = 0 THEN {<<>>}
    ELSE LET shorter == SeqsUpTo(S, n - 1)
         IN  shorter \cup {Append(s, c) : s \in {t \in shorter : Len(t) = n - 1}, c \in S}

\* byte value of a character (ASCII)
Ord(c) ==
    CASE c = "#" -> 35 [] c = "," -> 44 [] c = "-" -> 45 [] c = "." -> 46
      [] c = "1" -> 49 [] c = "2" -> 50 [] c = "=" -> 61
      [] c = "A" -> 65 [] c = "B" -> 66 [] c = "J" -> 74 [] c = "K" -> 75
      [] c = "_" -> 95
      [] c = "a" -> 97 [] c = "b" -> 98 [] c = "j" -> 106 [] c = "k" -> 107
      [] c = "\n" -> 10
      [] OTHER -> 0

LowerChar(c) ==
    CASE c = "A" -> "a" [] c = "B" -> "b" [] c = "J" -> "j" [] c = "K" -> "k"
      [] OTHER -> c

\* strings.ToLower
ToLower(s) == [i \in 1..Len(s) |-> LowerChar(s[i])]

\* strings.HasPrefix
HasPrefix(s, prefix) ==
    Len(s) >= Len(prefix) /\ SubSeq(s, 1, Len(prefix)) = prefix

\* does old occur in s at position i
OccursAt(s, old, i) ==
    i + Len(old) - 1 <= Len(s) /\ SubSeq(s, i, i + Len(old) - 1) = old

\* strings.ReplaceAll(s, old, new) for a non-empty old: the non-overlapping
\* occurrences of old, found from the left, are replaced by new
RECURSIVE ReplaceFrom(_, _, _, _)
ReplaceFrom(s, old, new, i) ==
    IF i > Len(s) THEN <<>>
    ELSE IF OccursAt(s, old, i)
         THEN new \o ReplaceFrom(s, old, new, i + Len(old))
         ELSE <<s[i]>> \o ReplaceFrom(s, old, new, i + 1)

ReplaceAll(s, old, new) == ReplaceFrom(s, old, new, 1)

\* strings.Split(s, sep): the substrings between the occurrences of sep; an
\* empty sep explodes s into its characters
RECURSIVE SplitFrom(_, _, _, _)
SplitFrom(s, sep, start, i) ==
    IF i > Len(s) THEN <<SubSeq(s, start, Len(s))>>
    ELSE IF OccursAt(s, sep, i)
         THEN <<SubSeq(s, start, i - 1)>> \o SplitFrom(s, sep, i + Len(sep), i + Len(sep))
         ELSE SplitFrom(s, sep, start, i + 1)

Split(s, sep) ==
    IF sep = <<>> THEN [i \in 1..Len(s) |-> <<s[i]>>]
    ELSE SplitFrom(s, sep, 1, 1)

\* s < t in the byte-wise lexicographic order of Go's string comparison
RECURSIVE StrLess(_, _)
StrLess(s, t) ==
    IF t = <<>> THEN FALSE
    ELSE IF s = <<>> THEN TRUE
    ELSE IF Ord(Head(s)) # Ord(Head(t)) THEN Ord(Head(s)) < Ord(Head(t))
    ELSE StrLess(Tail(s), Tail(t))

(***************************************************************************)
(* Maps                                                                    *)
(***************************************************************************)
EmptyMap == [k \in {} |-> <<>>]

\* m[k] = v
MapPut(m, k, v) == [x \in DOMAIN m \cup {k} |-> IF x = k THEN v ELSE m[x]]

(***************************************************************************)
(* ConvertKey                                                              *)
(***************************************************************************)
\* replaceUnderscores replaces every underscore by a dot
replaceUnderscores(s) == ReplaceAll(s, <<"_">>, <<".">>)

\* the regular expression [^_]_[^_] matches s at position i
MatchSingle(s, i) ==
    i + 2 <= Len(s) /\ s[i] # "_" /\ s[i + 1] = "_" /\ s[i + 2] # "_"

\* re.ReplaceAllStringFunc(key, replaceUnderscores): the non-overlapping
\* matches of the expression, found from the left, are handed to repl
RECURSIVE ReplaceAllStringFunc(_, _)
ReplaceAllStringFunc(s, i) ==
    IF i > Len(s) THEN <<>>
    ELSE IF MatchSingle(s, i)
         THEN replaceUnderscores(SubSeq(s, i, i + 2)) \o ReplaceAllStringFunc(s, i + 3)
         ELSE <<s[i]>> \o ReplaceAllStringFunc(s, i + 1)

\* ConvertKey with the two ReplaceAll calls in the opposite order
ConvertKeyDoubleFirst(key) ==
    LET singleReplaced       == ReplaceAllStringFunc(key, 1)
        singleDoubleReplaced == ReplaceAll(singleReplaced, <<"_", "_">>, <<"_">>)
    IN  ToLower(ReplaceAll(singleDoubleReplaced, <<"_", "_", "_">>, <<"-">>))

ConvertKey(key) ==
    LET singleReplaced       == ReplaceAllStringFunc(key, 1)
        singleTripleReplaced == ReplaceAll(singleReplaced, <<"_", "_", "_">>, <<"-">>)
    IN  ToLower(ReplaceAll(singleTripleReplaced, <<"_", "_">>, <<"_">>))

(***************************************************************************)
(* Specification SpecConvert: ConvertKey applied to a bounded name         *)
(***************************************************************************)
KeyChars == {"A", "K", "_"}

Idle ==
    /\ spec = NONE /\ environment = NONE /\ todo = {} /\ config = NONE
    /\ results = {} /\ calls = 0
    /\ sortedNames = <<>> /\ next = 0 /\ sink = <<>> /\ writes = 0 /\ err = "nil" /\ parsed = NONE
    /\ separator = NONE /\ defaultValues = NONE /\ value = NONE /\ values = NONE
    /\ osEnviron = NONE /\ caller = "none"

InitConvert ==
    /\ ckKey \in SeqsUpTo(KeyChars, MaxKeyLen)
    /\ ckOut = NONE
    /\ pc = "ConvertKey"
    /\ Idle

CallConvertKey ==
    /\ pc = "ConvertKey"
    /\ ckOut' = ConvertKey(ckKey)
    /\ pc' = "converted"
    /\ UNCHANGED <<ckKey, buildVars, writeVars, splitVars, mainVars>>

NextConvert == CallConvertKey

SpecConvert == InitConvert /\ [][NextConvert]_vars

(***************************************************************************)
(* ListToMap, KvStringToMap, splitToMapDefaults                            *)
(***************************************************************************)
\* the loop of ListToMap from entry i on, m being the map built so far
RECURSIVE ListToMapFrom(_, _, _)
ListToMapFrom(kvList, i, m) ==
    IF i > Len(kvList) THEN m
    ELSE LET parts == Split(kvList[i], <<"=">>)
         IN  IF Len(parts) = 2
             THEN ListToMapFrom(kvList, i + 1, MapPut(m, parts[1], parts[2]))
             ELSE ListToMapFrom(kvList, i + 1, m)

ListToMap(kvList) == ListToMapFrom(kvList, 1, EmptyMap)

KvStringToMap(kvString, sep) == ListToMap(Split(kvString, sep))

\* values[k] = v for every entry of the second map; each key is assigned
\* once, so the order of the range loop does not show
splitToMapDefaults(sep, defaults, val) ==
    LET base     == KvStringToMap(defaults, sep)
        override == KvStringToMap(val, sep)
    IN  [k \in DOMAIN base \cup DOMAIN override |->
            IF k \in DOMAIN override THEN override[k] ELSE base[k]]

(***************************************************************************)
(* BuildProperties                                                         *)
(***************************************************************************)
\* the orders in which a range loop can visit the set S
Orders(S) ==
    {f \in [1..Cardinality(S) -> S] : \A i, j \in 1..Cardinality(S) : f[i] = f[j] => i = j}

\* Contains(spec.Excludes, envKey); the slice is held as the set of its elements
Contains(slice, element) == element \in slice

\* RangePrefixes that strips the prefix but not the character after it
RECURSIVE RangePrefixesKeepSeparator(_, _, _, _, _, _)
RangePrefixesKeepSeparator(prefixes, order, i, envKey, envValue, cfg) ==
    IF i > Len(order) THEN [panic |-> FALSE, config |-> cfg]
    ELSE LET prefix == order[i]
             keep   == prefixes[prefix]
         IN  IF ~HasPrefix(envKey, prefix)
             THEN RangePrefixesKeepSeparator(prefixes, order, i + 1, envKey, envValue, cfg)
             ELSE IF keep
             THEN RangePrefixesKeepSeparator(prefixes, order, i + 1, envKey, envValue,
                                MapPut(cfg, ConvertKey(envKey), envValue))
             ELSE RangePrefixesKeepSeparator(prefixes, order, i + 1, envKey, envValue,
                                MapPut(cfg, ConvertKey(SubSeq(envKey, Len(prefix) + 1, Len(envKey))),
                                       envValue))

\* the loop over spec.Prefixes for one variable, visiting the prefixes in the
\* given order from position i on; envKey[len(prefix)+1:] panics when the
\* slice bound exceeds the length of envKey
RECURSIVE RangePrefixes(_, _, _, _, _, _)
RangePrefixes(prefixes, order, i, envKey, envValue, cfg) ==
    IF i > Len(order) THEN [panic |-> FALSE, config |-> cfg]
    ELSE LET prefix == order[i]
             keep   == prefixes[prefix]
         IN  IF ~HasPrefix(envKey, prefix)
             THEN RangePrefixes(prefixes, order, i + 1, envKey, envValue, cfg)
             ELSE IF keep
             THEN RangePrefixes(prefixes, order, i + 1, envKey, envValue,
                                MapPut(cfg, ConvertKey(envKey), envValue))
             ELSE IF Len(prefix) + 1 > Len(envKey)
             THEN [panic |-> TRUE, config |-> cfg]
             ELSE RangePrefixes(prefixes, order, i + 1, envKey, envValue,
                                MapPut(cfg, ConvertKey(SubSeq(envKey, Len(prefix) + 2, Len(envKey))),
                                       envValue))

\* VisitBody that tests the exclusion before the renaming
VisitBodyExcludesFirst(sp, env, order, envKey, cfg) ==
    IF Contains(sp.Excludes, envKey)
    THEN [panic |-> FALSE, config |-> cfg]
    ELSE IF envKey \in DOMAIN sp.Renamed
    THEN [panic |-> FALSE, config |-> MapPut(cfg, sp.Renamed[envKey], env[envKey])]
    ELSE RangePrefixes(sp.Prefixes, order, 1, envKey, env[envKey], cfg)

\* VisitBody that does not test the exclusion
VisitBodyNoExcludes(sp, env, order, envKey, cfg) ==
    IF envKey \in DOMAIN sp.Renamed
    THEN [panic |-> FALSE, config |-> MapPut(cfg, sp.Renamed[envKey], env[envKey])]
    ELSE RangePrefixes(sp.Prefixes, order, 1, envKey, env[envKey], cfg)

\* the body of the loop over the environment for the variable envKey
VisitBody(sp, env, order, envKey, cfg) ==
    IF envKey \in DOMAIN sp.Renamed
    THEN [panic |-> FALSE, config |-> MapPut(cfg, sp.Renamed[envKey], env[envKey])]
    ELSE IF ~Contains(sp.Excludes, envKey)
    THEN RangePrefixes(sp.Prefixes, order, 1, envKey, env[envKey], cfg)
    ELSE [panic |-> FALSE, config |-> cfg]

\* BuildProperties is entered: config is a copy of spec.Defaults
CallBuildProperties ==
    /\ \/ pc = "start"
       \/ pc = "returned" /\ caller = "direct" /\ calls < MaxCalls
    /\ config' = spec.Defaults
    /\ todo' = DOMAIN environment
    /\ calls' = calls + 1
    /\ pc' = "BuildProperties"
    /\ UNCHANGED <<ckVars, spec, environment, results, writeVars, splitVars, mainVars>>

\* one iteration of the loop over the environment; the map iteration picks any
\* variable not yet visited, and visits the prefixes in any order
VisitVariable ==
    /\ pc = "BuildProperties"
    /\ \E envKey \in todo, order \in Orders(DOMAIN spec.Prefixes) :
          LET r == VisitBody(spec, environment, order, envKey, config)
          IN  /\ ~r.panic
              /\ config' = r.config
              /\ todo' = todo \ {envKey}
    /\ UNCHANGED <<ckVars, spec, environment, results, calls, pc, writeVars, splitVars, mainVars>>

\* the iteration panics with a slice bound out of range; config is lost
PanicVariable ==
    /\ pc = "BuildProperties"
    /\ \E envKey \in todo, order \in Orders(DOMAIN spec.Prefixes) :
          VisitBody(spec, environment, order, envKey, config).panic
    /\ pc' = "panic"
    /\ config' = NONE
    /\ UNCHANGED <<ckVars, spec, environment, todo, results, calls, writeVars, splitVars, mainVars>>

\* the loop is over: return config
ReturnProperties ==
    /\ pc = "BuildProperties"
    /\ todo = {}
    /\ results' = results \cup {config}
    /\ pc' = "returned"
    /\ UNCHANGED <<ckVars, spec, environment, todo, config, calls, writeVars, splitVars, mainVars>>

(***************************************************************************)
(* Specification SpecBuild: BuildProperties invoked on a bounded ConfigSpec *)
(* and environment, up to MaxCalls times on the same arguments              *)
(***************************************************************************)
\* the maps from at most n elements of K to elements of V
MapsUpTo(K, V, n) ==
    UNION {[D -> V] : D \in {S \in SUBSET K : Cardinality(S) <= n}}

EnvNames    == {<<"K">>, <<"K", "A">>, <<"K", "_", "A">>, <<"J", "_", "A">>}
EnvValues   == {<<"1">>, <<"2">>}
PrefixNames == {<<"K">>, <<"K", "A">>, <<"J">>}
ExcludeNames == {<<"K", "_", "A">>}
RenamedNames == {<<"K", "_", "A">>}
RenamedKeys == {<<"a">>, <<"b">>}
DefaultMaps == {EmptyMap, [k \in {<<"a">>, <<"b">>} |-> <<"0">>]}

NotConverting == ckKey = NONE /\ ckOut = NONE

NotWriting ==
    sortedNames = <<>> /\ next = 0 /\ sink = <<>> /\ writes = 0 /\ err = "nil" /\ parsed = NONE

NotSplitting ==
    separator = NONE /\ defaultValues = NONE /\ value = NONE /\ values = NONE

InitBuild ==
    /\ spec \in [Prefixes : MapsUpTo(PrefixNames, BOOLEAN, MaxPrefixes),
                 Excludes : SUBSET ExcludeNames,
                 Renamed  : MapsUpTo(RenamedNames, RenamedKeys, MaxRenamed),
                 Defaults : DefaultMaps]
    /\ environment \in MapsUpTo(EnvNames, EnvValues, MaxEnv)
    /\ todo = {} /\ config = NONE /\ results = {} /\ calls = 0
    /\ pc = "start"
    /\ osEnviron = NONE /\ caller = "direct"
    /\ NotConverting /\ NotWriting /\ NotSplitting

NextBuild ==
    \/ CallBuildProperties
    \/ VisitVariable
    \/ PanicVariable
    \/ ReturnProperties

SpecBuild == InitBuild /\ [][NextBuild]_vars


(***************************************************************************)
(* GetEnvironment, writeConfig, renderConfig                               *)
(***************************************************************************)
\* the entry NAME=VALUE of os.Environ() for the variable n
EnvironEntry(env, n) == n \o <<"=">> \o env[n]

\* GetEnvironment: ListToMap(os.Environ()), the entries listed in any order
GetEnvironment ==
    /\ pc = "renderConfig"
    /\ \E order \in Orders(DOMAIN osEnviron) :
          environment' = ListToMap([i \in 1..Len(order) |-> EnvironEntry(osEnviron, order[i])])
    /\ pc' = "start"
    /\ UNCHANGED <<ckVars, spec, todo, config, results, calls, writeVars, splitVars, mainVars>>

\* sort.Strings by insertion: x put before the first element it is less than
RECURSIVE InsertSorted(_, _)
InsertSorted(sorted, x) ==
    IF sorted = <<>> THEN <<x>>
    ELSE IF StrLess(x, Head(sorted)) THEN <<x>> \o sorted
    ELSE <<Head(sorted)>> \o InsertSorted(Tail(sorted), x)

RECURSIVE SortFrom(_, _, _)
SortFrom(names, i, sorted) ==
    IF i > Len(names) THEN sorted
    ELSE SortFrom(names, i + 1, InsertSorted(sorted, names[i]))

\* sort.Strings left out: the names stay in the order of the map iteration
UnsortedStrings(names) == names

SortStrings(names) == SortFrom(names, 1, <<>>)

\* time.Now().String() at the moment of the call
Timestamps == {<<"1">>, <<"2">>}

\* formatHeritage()
formatHeritage(now) == <<"#">> \o now

\* the bytes of fmt.Fprintf(writer, "%s=%s\n", n, config[n])
PropertyLine(cfg, n) == n \o <<"=">> \o cfg[n] \o <<"\n">>

\* a Write that returns an error has written a proper prefix of its bytes
ProperPrefixes(bytes) == {SubSeq(bytes, 1, n) : n \in 0..(Len(bytes) - 1)}

\* fmt.Fprintln(writer, formatHeritage()) succeeds; the names of config are
\* appended to sortedNames in the order of the map iteration, then sorted
WriteHeritage ==
    /\ pc = "returned" /\ caller = "renderConfig"
    /\ \E now \in Timestamps :
          sink' = sink \o formatHeritage(now) \o <<"\n">>
    /\ writes' = writes + 1
    /\ \E order \in Orders(DOMAIN config) :
          sortedNames' = SortStrings(order)
    /\ err' = "nil"
    /\ next' = 1
    /\ pc' = "writeLoop"
    /\ UNCHANGED <<ckVars, buildVars, parsed, splitVars, mainVars>>

\* the write of the heritage line returns an error: panic(err)
FailHeritage ==
    /\ pc = "returned" /\ caller = "renderConfig"
    /\ \E now \in Timestamps :
          \E written \in ProperPrefixes(formatHeritage(now) \o <<"\n">>) :
              sink' = sink \o written
    /\ writes' = writes + 1
    /\ err' = "error"
    /\ pc' = "panic"
    /\ UNCHANGED <<ckVars, buildVars, sortedNames, next, parsed, splitVars, mainVars>>

\* one iteration of the loop over sortedNames: the line is written
WriteProperty ==
    /\ pc = "writeLoop"
    /\ next <= Len(sortedNames)
    /\ sink' = sink \o PropertyLine(config, sortedNames[next])
    /\ writes' = writes + 1
    /\ err' = "nil"
    /\ next' = next + 1
    /\ UNCHANGED <<ckVars, buildVars, sortedNames, parsed, splitVars, mainVars, pc>>

\* FailProperty without the panic: the loop goes on to the next name
FailPropertyContinue ==
    /\ pc = "writeLoop"
    /\ next <= Len(sortedNames)
    /\ \E written \in ProperPrefixes(PropertyLine(config, sortedNames[next])) :
          sink' = sink \o written
    /\ writes' = writes + 1
    /\ err' = "error"
    /\ next' = next + 1
    /\ UNCHANGED <<ckVars, buildVars, sortedNames, parsed, splitVars, mainVars, pc>>

\* the write of a property line returns an error: panic(err)
FailProperty ==
    /\ pc = "writeLoop"
    /\ next <= Len(sortedNames)
    /\ \E written \in ProperPrefixes(PropertyLine(config, sortedNames[next])) :
          sink' = sink \o written
    /\ writes' = writes + 1
    /\ err' = "error"
    /\ pc' = "panic"
    /\ UNCHANGED <<ckVars, buildVars, sortedNames, next, parsed, splitVars, mainVars>>

\* the loop is over: writeConfig returns
ReturnWriteConfig ==
    /\ pc = "writeLoop"
    /\ next > Len(sortedNames)
    /\ pc' = "written"
    /\ UNCHANGED <<ckVars, buildVars, writeVars, splitVars, mainVars>>

\* the reader of the output: ListToMap of the lines after the heritage line
ParseOutput ==
    /\ pc = "written"
    /\ parsed' = ListToMap(Tail(Split(sink, <<"\n">>)))
    /\ pc' = "parsed"
    /\ UNCHANGED <<ckVars, buildVars, sortedNames, next, sink, writes, err, splitVars, mainVars>>

(***************************************************************************)
(* Specification Spec: renderConfig on a bounded ConfigSpec and process    *)
(* environment, the output read back                                       *)
(***************************************************************************)
RenderNames    == {<<"K">>, <<"K", "_", "A">>, <<"J", "_", "A">>}
RenderValues   == {<<"1">>, <<"1", "=", "2">>}
RenderPrefixes == {<<"K">>, <<"J">>}
RenderRenamedNames == {<<"J", "_", "A">>}
RenderRenamedKeys  == {<<"b">>}
RenderDefaults == {EmptyMap,
                   [k \in {<<"a">>} |-> <<"0">>],
                   [k \in {<<"b">>} |-> <<"1", "=", "2">>]}

Init ==
    /\ osEnviron \in MapsUpTo(RenderNames, RenderValues, MaxEnv)
    /\ spec \in [Prefixes : MapsUpTo(RenderPrefixes, BOOLEAN, MaxPrefixes),
                 Excludes : {{}},
                 Renamed  : MapsUpTo(RenderRenamedNames, RenderRenamedKeys, MaxRenamed),
                 Defaults : RenderDefaults]
    /\ environment = NONE
    /\ todo = {} /\ config = NONE /\ results = {} /\ calls = 0
    /\ caller = "renderConfig"
    /\ pc = "renderConfig"
    /\ NotConverting /\ NotWriting /\ NotSplitting

Next ==
    \/ GetEnvironment
    \/ CallBuildProperties
    \/ VisitVariable
    \/ PanicVariable
    \/ ReturnProperties
    \/ WriteHeritage
    \/ FailHeritage
    \/ WriteProperty
    \/ FailProperty
    \/ ReturnWriteConfig
    \/ ParseOutput

Spec == Init /\ [][Next]_vars

(***************************************************************************)
(* Specification SpecSplit: splitToMapDefaults on bounded lists            *)
(***************************************************************************)
\* strings.Join(entries, sep)
RECURSIVE Join(_, _)
Join(entries, sep) ==
    IF entries = <<>> THEN <<>>
    ELSE IF Len(entries) = 1 THEN entries[1]
    ELSE entries[1] \o sep \o Join(Tail(entries), sep)

SplitEntries == {<<"a", "=", "1">>, <<"a", "=", "2">>, <<"b", "=", "1">>,
                 <<"a">>, <<"b", "=", "1", "=", "2">>, <<"b", "=">>}
SplitSeparators == {<<",">>, <<>>}

\* the lists of at most MaxEntries entries
SplitLists(sep) == {Join(es, sep) : es \in SeqsUpTo(SplitEntries, MaxEntries)}

InitSplit ==
    /\ separator \in SplitSeparators
    /\ defaultValues \in SplitLists(separator)
    /\ value \in SplitLists(separator)
    /\ values = NONE
    /\ pc = "splitToMapDefaults"
    /\ spec = NONE /\ environment = NONE /\ todo = {} /\ config = NONE
    /\ results = {} /\ calls = 0
    /\ osEnviron = NONE /\ caller = "none"
    /\ NotConverting /\ NotWriting

CallSplitToMapDefaults ==
    /\ pc = "splitToMapDefaults"
    /\ values' = splitToMapDefaults(separator, defaultValues, value)
    /\ pc' = "split"
    /\ UNCHANGED <<ckVars, buildVars, writeVars, separator, defaultValues, value, mainVars>>

NextSplit == CallSplitToMapDefaults

SpecSplit == InitSplit /\ [][NextSplit]_vars


(***************************************************************************)
(* Properties of ConvertKey                                                *)
(***************************************************************************)
\* length of the run of underscores of s that starts at position i
RECURSIVE RunLen(_, _)
RunLen(s, i) ==
    IF i > Len(s) \/ s[i] # "_" THEN 0 ELSE 1 + RunLen(s, i + 1)

\* s cut into its maximal runs of underscores and its other characters
RECURSIVE Tokens(_, _)
Tokens(s, i) ==
    IF i > Len(s) THEN <<>>
    ELSE IF s[i] # "_" THEN <<SubSeq(s, i, i)>> \o Tokens(s, i + 1)
    ELSE <<SubSeq(s, i, i + RunLen(s, i) - 1)>> \o Tokens(s, i + RunLen(s, i))

\* the underscore at position i is preceded and followed by a non-underscore
SingleUnderscoreAt(s, i) ==
    /\ 1 < i /\ i < Len(s)
    /\ s[i] = "_" /\ s[i - 1] # "_" /\ s[i + 1] # "_"

\* every run of underscores has length at most three and lies between
\* non-underscore characters
RunsBetween(s) ==
    /\ s # <<>> /\ s[1] # "_" /\ s[Len(s)] # "_"
    /\ \A i \in 1..Len(s) : RunLen(s, i) <= 3

\* C1: every underscore that is preceded and followed by a non-underscore
\* character is output as '.': the result is the conversion of what precedes
\* it, a '.', and the conversion of what follows it.
C1_SingleUnderscoreBecomesDot ==
    pc = "converted" =>
        \A i \in 1..Len(ckKey) :
            SingleUnderscoreAt(ckKey, i) =>
                ckOut = ConvertKey(SubSeq(ckKey, 1, i - 1)) \o <<".">>
                          \o ConvertKey(SubSeq(ckKey, i + 1, Len(ckKey)))

\* C7: in a name whose runs of underscores have length at most three and lie
\* between non-underscore characters, every run of two underscores is output as
\* one '_', every run of three as '-', and every other character in lower case.
C7_DoubleTripleLower ==
    (pc = "converted" /\ RunsBetween(ckKey)) =>
        LET toks == Tokens(ckKey, 1)
        IN  /\ Len(ckOut) = Len(toks)
            /\ \A j \in 1..Len(toks) :
                  /\ toks[j] = <<"_", "_">> => ckOut[j] = "_"
                  /\ toks[j] = <<"_", "_", "_">> => ckOut[j] = "-"
                  /\ toks[j][1] # "_" => ckOut[j] = LowerChar(toks[j][1])

\* a converted name with a run of two next to a run of three and a single
\* underscore
C7_Witness ==
    /\ pc = "converted" /\ RunsBetween(ckKey)
    /\ \E i \in 1..Len(ckKey) :
          /\ OccursAt(ckKey, <<"A", "_", "_", "K", "_", "_", "_", "A">>, i)
    /\ ckOut = <<"a", "_", "k", "-", "a">>

(***************************************************************************)
(* Properties of BuildProperties                                           *)
(***************************************************************************)
\* the prefixes of sp.Prefixes that the name n starts with
Matching(sp, n) == {p \in DOMAIN sp.Prefixes : HasPrefix(n, p)}

\* the name n without the prefix p and the character after it
Rest(n, p) == SubSeq(n, Len(p) + 2, Len(n))

\* the key of the row the variable n contributes through the prefix p
PrefixKey(sp, n, p) ==
    IF sp.Prefixes[p] THEN ConvertKey(n) ELSE ConvertKey(Rest(n, p))

\* the output keys the variable n assigns
RowKeys(sp, n) ==
    IF n \in DOMAIN sp.Renamed THEN {sp.Renamed[n]}
    ELSE IF n \in sp.Excludes THEN {}
    ELSE {PrefixKey(sp, n, p) : p \in Matching(sp, n)}

\* no variable other than n assigns the key k
OnlyRow(sp, env, n, k) ==
    \A m \in DOMAIN env \ {n} : k \notin RowKeys(sp, m)

\* C2: BuildProperties returns a mapping instead of panicking, for every
\* well-formed spec and environment, also for a variable whose name is a prefix
\* with keepPrefix false or has no separator after it.
C2_NeverPanics == pc # "panic"

\* C3: for a fixed spec and environment every invocation of BuildProperties
\* returns the same mapping.
C3_Deterministic == Cardinality(results) <= 1

\* C4 as stated: for every variable whose name is a key of Renamed the result
\* maps Renamed[name] to the variable's value.
C4_RenamedAlwaysMapped ==
    pc = "returned" =>
        \A n \in DOMAIN environment \cap DOMAIN spec.Renamed :
            /\ spec.Renamed[n] \in DOMAIN config
            /\ config[spec.Renamed[n]] = environment[n]

\* C4 amended: for every variable whose name is a key of Renamed, the result
\* maps Renamed[name] to the variable's value unless another variable assigns
\* the same output key, also when the name is excluded or starts with a prefix;
\* and every entry of the result is a default or a row of some variable, where
\* the only row of a renamed variable is its renaming.
C4_RenamedTakesPrecedence ==
    pc = "returned" =>
        /\ \A n \in DOMAIN environment \cap DOMAIN spec.Renamed :
              OnlyRow(spec, environment, n, spec.Renamed[n]) =>
                  /\ spec.Renamed[n] \in DOMAIN config
                  /\ config[spec.Renamed[n]] = environment[n]
        /\ \A k \in DOMAIN config :
              \/ k \in DOMAIN spec.Defaults /\ config[k] = spec.Defaults[k]
              \/ \E n \in DOMAIN environment :
                    k \in RowKeys(spec, n) /\ config[k] = environment[n]

\* a renamed variable that is excluded and starts with a prefix: the result
\* holds its renaming and not the key of its prefix
C4_Witness ==
    /\ pc = "returned"
    /\ \E n \in DOMAIN environment \cap DOMAIN spec.Renamed :
          /\ n \in spec.Excludes
          /\ DOMAIN environment = {n}
          /\ \E p \in Matching(spec, n) :
                /\ ~spec.Prefixes[p]
                /\ ConvertKey(Rest(n, p)) \notin DOMAIN config
                /\ ConvertKey(Rest(n, p)) # spec.Renamed[n]
          /\ config[spec.Renamed[n]] = environment[n]

\* C5: a variable that is not renamed and not excluded and whose name is a
\* prefix, one more character and a rest is mapped from ConvertKey(rest)
\* (keepPrefix false) or ConvertKey(name) (keepPrefix true) to its value in the
\* mapping BuildProperties returns, also over a default with the same key,
\* when no other variable assigns that key.
C5_PrefixRow ==
    pc = "returned" =>
        \A n \in DOMAIN environment :
            (n \notin DOMAIN spec.Renamed /\ n \notin spec.Excludes) =>
                \A p \in Matching(spec, n) :
                    (Len(n) >= Len(p) + 1
                       /\ OnlyRow(spec, environment, n, PrefixKey(spec, n, p))) =>
                        /\ PrefixKey(spec, n, p) \in DOMAIN config
                        /\ config[PrefixKey(spec, n, p)] = environment[n]

\* K_A with the prefix K stripped has overwritten the default of the key a
C5_Witness ==
    /\ pc = "returned"
    /\ <<"K", "_", "A">> \in DOMAIN environment
    /\ <<"K", "_", "A">> \notin DOMAIN spec.Renamed \cup spec.Excludes
    /\ <<"K">> \in DOMAIN spec.Prefixes /\ ~spec.Prefixes[<<"K">>]
    /\ <<"a">> \in DOMAIN spec.Defaults
    /\ config[<<"a">>] = environment[<<"K", "_", "A">>]
    /\ config[<<"a">>] # spec.Defaults[<<"a">>]

\* the variable n contributes no row: it is not renamed, and it is excluded
\* or starts with no prefix
Ignored(sp, n) ==
    /\ n \notin DOMAIN sp.Renamed
    /\ n \in sp.Excludes \/ Matching(sp, n) = {}

\* env without its ignored variables
WithoutIgnored(sp, env) ==
    [n \in {m \in DOMAIN env : ~Ignored(sp, m)} |-> env[n]]

\* the loop over env in the order eo from position i on
RECURSIVE RangeEnvironment(_, _, _, _, _, _)
RangeEnvironment(sp, env, eo, po, i, cfg) ==
    IF i > Len(eo) THEN [panic |-> FALSE, config |-> cfg]
    ELSE LET r == VisitBody(sp, env, po, eo[i], cfg)
         IN  IF r.panic THEN r
             ELSE RangeEnvironment(sp, env, eo, po, i + 1, r.config)

\* the outcomes of BuildProperties(sp, env) over all orders of iteration
Outcomes(sp, env) ==
    {RangeEnvironment(sp, env, eo, po, 1, sp.Defaults) :
        eo \in Orders(DOMAIN env), po \in Orders(DOMAIN sp.Prefixes)}

\* what BuildProperties has produced is an outcome for the environment
\* without the ignored variables
C6_SameAsWithout ==
    /\ pc = "returned" =>
          [panic |-> FALSE, config |-> config]
              \in Outcomes(spec, WithoutIgnored(spec, environment))
    /\ pc = "panic" =>
          \E r \in Outcomes(spec, WithoutIgnored(spec, environment)) : r.panic
    /\ (pc = "returned" /\ DOMAIN spec.Prefixes = {} /\ DOMAIN spec.Renamed = {}) =>
          config = spec.Defaults

\* the iteration that visits an ignored variable leaves config as it is
C6_VisitIgnored ==
    \A n \in todo :
        (pc = "BuildProperties" /\ todo' = todo \ {n} /\ Ignored(spec, n)) =>
            config' = config /\ pc' = pc

\* C6: a variable that is not renamed and that is excluded or starts with no
\* prefix contributes no row: BuildProperties returns the same mapping as for
\* the environment without it, and with empty Prefixes and Renamed the result
\* is exactly Defaults.
C6_IgnoredContributesNothing == []C6_SameAsWithout /\ [][C6_VisitIgnored]_vars

\* K_A is excluded, would match the prefix K, and is absent from the result,
\* next to a variable that did contribute
C6_Witness ==
    /\ pc = "returned"
    /\ <<"K", "_", "A">> \in DOMAIN environment
    /\ Ignored(spec, <<"K", "_", "A">>)
    /\ <<"K", "_", "A">> \in spec.Excludes
    /\ <<"K">> \in DOMAIN spec.Prefixes /\ ~spec.Prefixes[<<"K">>]
    /\ <<"K", "A">> \in DOMAIN environment
    /\ DOMAIN config = {<<>>}

(***************************************************************************)
(* Properties of writeConfig and of the round trip                         *)
(***************************************************************************)
\* the least string of the non-empty set S
Least(S) == CHOOSE k \in S : \A o \in S \ {k} : StrLess(k, o)

\* the strings of S in ascending lexicographic order
RECURSIVE Ascending(_)
Ascending(S) ==
    IF S = {} THEN <<>> ELSE <<Least(S)>> \o Ascending(S \ {Least(S)})

\* the lines key=value of the first n keys of cfg in ascending order
RECURSIVE LinesUpTo(_, _)
LinesUpTo(cfg, n) ==
    IF n = 0 THEN <<>>
    ELSE LinesUpTo(cfg, n - 1)
            \o Ascending(DOMAIN cfg)[n] \o <<"=">> \o cfg[Ascending(DOMAIN cfg)[n]] \o <<"\n">>

\* C8: writeConfig writes the heritage line first and then one line key=value
\* per entry of the mapping, in ascending lexicographic order of the keys,
\* whatever the order of the map iteration: while the loop runs the sink holds
\* the lines of the first keys, and when writeConfig returns it holds one line
\* for every key.
C8_SortedLines ==
    pc \in {"writeLoop", "written", "parsed"} =>
        /\ next \in 1..(Cardinality(DOMAIN config) + 1)
        /\ pc # "writeLoop" => next = Cardinality(DOMAIN config) + 1
        /\ \E now \in Timestamps :
              sink = formatHeritage(now) \o <<"\n">> \o LinesUpTo(config, next - 1)
        /\ writes = next

\* writeConfig has returned after writing three properties
C8_Witness ==
    /\ pc = "written"
    /\ Cardinality(DOMAIN config) = 3
    /\ sortedNames = <<<<"b">>, <<"j", ".", "a">>, <<"k", ".", "a">>>>
    /\ Len(Split(sink, <<"\n">>)) = 5

\* C10: the lines after the heritage line, parsed as key=value pairs by
\* ListToMap, are the properties mapping, also for values that contain '='.
C10_RoundTrip == pc = "parsed" => parsed = config

\* C9: splitToMapDefaults returns the union of the key=value pairs of both
\* lists, the pair of valueList winning on a key of both; an entry is a pair
\* when it has a '=', its key the text before the first '=' and its value the
\* text after it, and an entry without '=' is dropped.
C9_UnionValueWins ==
    pc = "split" =>
        LET HasEq(e) == \E i \in 1..Len(e) : e[i] = "="
            FirstEq(e) == CHOOSE i \in 1..Len(e) : e[i] = "=" /\ \A j \in 1..(i - 1) : e[j] # "="
            Pairs(list) ==
                LET es == Split(list, separator)
                IN  {<<i, SubSeq(es[i], 1, FirstEq(es[i]) - 1),
                          SubSeq(es[i], FirstEq(es[i]) + 1, Len(es[i]))>> :
                        i \in {j \in 1..Len(es) : HasEq(es[j])}}
            Keys(ps) == {t[2] : t \in ps}
            \* the value of the last pair of ps with the key k
            Last(ps, k) ==
                (CHOOSE t \in ps : t[2] = k /\ \A u \in ps : u[2] = k => u[1] <= t[1])[3]
            d == Pairs(defaultValues)
            v == Pairs(value)
        IN  /\ DOMAIN values = Keys(d) \cup Keys(v)
            /\ \A k \in DOMAIN values :
                  values[k] = IF k \in Keys(v) THEN Last(v, k) ELSE Last(d, k)

(***************************************************************************)
(* Properties of a failing write and of GetEnvironment                     *)
(***************************************************************************)
\* a write has returned an error: writeConfig is in the panic state
C11_FailedIsFatal == err = "error" => pc = "panic"

\* after a write that returned an error no step issues a write or leaves the
\* panic state
C11_NoWriteAfterError ==
    err = "error" => (writes' = writes /\ sink' = sink /\ err' = err /\ pc' = "panic")

\* C11: a write failure on the sink aborts writeConfig at once: after the first
\* write that returns an error, of the heritage line or of a property line, no
\* further write is issued and writeConfig is in the panic state.
C11_WriteFailureAborts == []C11_FailedIsFatal /\ [][C11_NoWriteAfterError]_vars

\* the write of the first of two property lines has failed: two writes were
\* issued and both names are still to be written
C11_Witness ==
    /\ pc = "panic" /\ err = "error"
    /\ Len(sortedNames) = 2 /\ next = 1
    /\ writes = 2

\* C12: GetEnvironment returns the whole environment: every entry NAME=VALUE
\* of the process environment is in the snapshot, also when VALUE contains '='.
C12_WholeEnvironment ==
    pc # "renderConfig" =>
        /\ DOMAIN environment = DOMAIN osEnviron
        /\ \A n \in DOMAIN osEnviron : environment[n] = osEnviron[n]

====
